---- MODULE Spec2Model ----
(***************************************************************************)
(* Model of eval_relevance.py: the evaluation of course recommendations    *)
(* under four context modes.  Text is a sequence of one-character strings, *)
(* a course is its catalog line, scores are kept in thousandths (the code  *)
(* rounds every score to three decimals).                                  *)
(***************************************************************************)
EXTENDS Integers, Sequences, FiniteSets, TLC

VARIABLES
    pc,             \* position of the script
    student,        \* mgr.get_student_by_username(TEST_STUDENT): a major, or None
    plan_file,      \* <major>_plan.txt: whether it exists, and its lines
    course_list,    \* lines of course_list.txt
    question_file,  \* lines of evaluation_questions.txt
    store_grades,   \* mgr.get_student_courses(TEST_STUDENT): course -> grade
    plan_courses,   \* set of plan lines
    all_courses,    \* catalog lines, in file order
    course_grades,  \* dict course -> grade
    questions,      \* the stripped non-blank lines of the question file
    qi, mi,         \* loop position: question index, mode index
    gen,            \* how the generation call of the last trial ended
    reply, recs,    \* reply text and extracted courses of the last trial
    rows,           \* the row table
    csv,            \* OUT_CSV: whether it is written, its header and rows
    backend,        \* the texts the generation service may answer
    grouped,        \* mode -> list of (PlanScore, PersonalScore, Recall)
    a, boots, ci_out \* ci(a): observations, resampled means, returned bounds

vars == <<pc, student, plan_file, course_list, question_file, store_grades,
          plan_courses, all_courses, course_grades, questions, qi, mi, gen,
          reply, recs, rows, csv, backend, grouped, a, boots, ci_out>>

loaded == <<student, plan_file, course_list, question_file, store_grades,
           backend>>
data   == <<plan_courses, all_courses, course_grades, questions>>
civars == <<a, boots, ci_out>>

None == "<None>"

-----------------------------------------------------------------------------
(* Characters and strings                                                  *)

UpperCase == <<"A","B","C","D","E","F","G","H","I","J","K","L","M",
               "N","O","P","Q","R","S","T","U","V","W","X","Y","Z">>
LowerCase == <<"a","b","c","d","e","f","g","h","i","j","k","l","m",
               "n","o","p","q","r","s","t","u","v","w","x","y","z">>
Digits == {"0","1","2","3","4","5","6","7","8","9"}
Whitespace == {" ", "\t", "\n", "\r"}

IsUpper(c) == \E i \in 1..26 : UpperCase[i] = c
IsLower(c) == \E i \in 1..26 : LowerCase[i] = c

\* str.lower() on one character
LowerChar(c) == IF IsUpper(c) THEN LowerCase[CHOOSE i \in 1..26 : UpperCase[i] = c]
                ELSE c

\* str.lower()
lower(s) == [i \in 1..Len(s) |-> LowerChar(s[i])]

\* \w of the re module
IsWordChar(c) == IsUpper(c) \/ IsLower(c) \/ c \in Digits \/ c = "_"

\* str.strip(): drop leading and trailing whitespace
strip(s) ==
    LET keep == {i \in 1..Len(s) : s[i] \notin Whitespace}
    IN  IF keep = {} THEN <<>>
        ELSE LET lo == CHOOSE i \in keep : \A j \in keep : i <= j
                 hi == CHOOSE i \in keep : \A j \in keep : j <= i
             IN  SubSeq(s, lo, hi)

\* c.split(":")[0]: the text before the first colon, the whole text without one
SplitColonHead(s) ==
    LET colons == {i \in 1..Len(s) : s[i] = ":"}
    IN  IF colons = {} THEN s
        ELSE SubSeq(s, 1, (CHOOSE i \in colons : \A j \in colons : i <= j) - 1)

-----------------------------------------------------------------------------
(* extract_courses                                                         *)

\* all_codes = {c.split(":")[0].strip(): c for c in all_courses}: a later line
\* with the same code replaces an earlier one
CodeOf(full) == strip(SplitColonHead(full))

all_codes_of(courses) ==
    LET codes == {CodeOf(courses[i]) : i \in 1..Len(courses)}
        last(code) == CHOOSE i \in 1..Len(courses) :
                         /\ CodeOf(courses[i]) = code
                         /\ \A j \in 1..Len(courses) :
                               CodeOf(courses[j]) = code => j <= i
    IN  [code \in codes |-> courses[last(code)]]

\* \b at offset p of text (0 .. Len): exactly one side is a word character
WordBoundary(text, p) ==
    LET before == p > 0 /\ IsWordChar(text[p])
        after  == p < Len(text) /\ IsWordChar(text[p + 1])
    IN  before # after

\* the two \b of the pattern, around the code found at offset p
BoundedAtAnywhere(code, text, p) == TRUE
BoundedAt(code, text, p) ==
    WordBoundary(text, p) /\ WordBoundary(text, p + Len(code))

\* re.search(rf"\b{re.escape(code)}\b", text, flags=re.I)
re_search_code(code, text) ==
    \E p \in 0..(Len(text) - Len(code)) :
        /\ \A k \in 1..Len(code) : LowerChar(text[p + k]) = LowerChar(code[k])
        /\ BoundedAt(code, text, p)

\* 1) by code
ExactPass(text, courses) ==
    LET codes == all_codes_of(courses)
    IN  {codes[code] : code \in {c \in DOMAIN codes : re_search_code(c, text)}}

\* difflib.SequenceMatcher: length of the common run starting at x[i], y[j]
\* inside x[..xhi], y[..yhi]
RECURSIVE RunLen(_, _, _, _, _, _)
RunLen(x, y, i, j, xhi, yhi) ==
    IF i > xhi \/ j > yhi \/ x[i] # y[j] THEN 0
    ELSE 1 + RunLen(x, y, i + 1, j + 1, xhi, yhi)

\* find_longest_match(alo, ahi, blo, bhi): the longest block, of those the one
\* starting earliest in x, of those the one starting earliest in y; <<i, j, k>>
find_longest_match(x, y, xlo, xhi, ylo, yhi) ==
    LET pairs == (xlo..xhi) \X (ylo..yhi)
        size  == [p \in pairs |-> RunLen(x, y, p[1], p[2], xhi, yhi)]
        bestsize == CHOOSE k \in {size[p] : p \in pairs} :
                       \A q \in pairs : size[q] <= k
        longest == {p \in pairs : size[p] = bestsize}
        best  == CHOOSE p \in longest :
                    \A q \in longest :
                        p[1] < q[1] \/ (p[1] = q[1] /\ p[2] <= q[2])
    IN  <<best[1], best[2], bestsize>>

\* get_matching_blocks: total size of the blocks found by splitting around the
\* longest match and recursing to its left and to its right
RECURSIVE MatchingSize(_, _, _, _, _, _)
MatchingSize(x, y, xlo, xhi, ylo, yhi) ==
    IF xlo > xhi \/ ylo > yhi THEN 0
    ELSE LET m == find_longest_match(x, y, xlo, xhi, ylo, yhi)
         IN  IF m[3] = 0 THEN 0
             ELSE m[3]
                  + MatchingSize(x, y, xlo, m[1] - 1, ylo, m[2] - 1)
                  + MatchingSize(x, y, m[1] + m[3], xhi, m[2] + m[3], yhi)

\* SequenceMatcher(None, x, y).ratio() > .8, with ratio = 2.0 * M / T and
\* ratio = 1.0 when both are empty
RatioAbove80(x, y) ==
    LET T == Len(x) + Len(y)
        M == MatchingSize(x, y, 1, Len(x), 1, Len(y))
    IN  IF T = 0 THEN TRUE ELSE 10 * M > 4 * T

\* 2) fuzzy
FuzzyPass(text, courses) ==
    {courses[i] : i \in {k \in 1..Len(courses) :
                            RatioAbove80(lower(text), lower(courses[k]))}}

extract_merged(text, courses) ==
    ExactPass(text, courses) \cup FuzzyPass(text, courses)
extract_from(text, courses) ==
    LET found == ExactPass(text, courses)
    IN  IF found = {} THEN FuzzyPass(text, courses) ELSE found

extract_courses(text) == extract_from(text, all_courses)

-----------------------------------------------------------------------------
(* Program constants                                                       *)

GradeScale == <<"A", "A-", "B+", "B", "B-", "C+", "C", "D", "F">>
LOW_GRADE_THRESHOLD == "B-"
Modes == <<"full", "noGrades", "noPlan", "question">>
Header == <<"Question", "Mode", "#Rec", "PlanScore", "PersonalScore", "Lift",
            "Recall", "Invalid_Taken", "Invalid_OffPlan", "Latency">>

-----------------------------------------------------------------------------
(* Grades                                                                  *)

\* grade_rank = {g: i for i, g in enumerate([...])}
OnScale(g) == \E i \in 1..Len(GradeScale) : GradeScale[i] = g
grade_rank(g) == (CHOOSE i \in 1..Len(GradeScale) : GradeScale[i] = g) - 1

\* grade_rank.get(g, 99)
RankOrDefault(g) == IF OnScale(g) THEN grade_rank(g) ELSE 99

\* course_grades.get(course)
GradeOf(course) ==
    IF course \in DOMAIN course_grades THEN course_grades[course] ELSE None

grade_low(course) ==
    LET g == GradeOf(course)
    IN  IF g = None THEN FALSE
        ELSE RankOrDefault(g) >= grade_rank(LOW_GRADE_THRESHOLD)

taken_courses == DOMAIN course_grades

-----------------------------------------------------------------------------
(* Scoring of one trial                                                    *)

\* round(n / d, 3) in thousandths: the nearest thousandth, an exact tie going
\* to the even one
Round3(n, d) ==
    LET q == (1000 * n) \div d
        r == (1000 * n) % d
    IN  IF 2 * r > d \/ (2 * r = d /\ q % 2 = 1) THEN q + 1 ELSE q

\* len(x) / len(y), rounded: raises ZeroDivisionError when y is empty
Quotient(n, d) ==
    [raised |-> d = 0, value |-> IF d = 0 THEN 0 ELSE Round3(n, d)]
Zero == [raised |-> FALSE, value |-> 0]

good_plan_with_taken(rs) == {c \in rs : c \in plan_courses}
good_plan_of(rs) == {c \in rs : c \in plan_courses /\ c \notin taken_courses}

good_personal_low_only(rs) ==
    {c \in rs : c \in plan_courses /\ grade_low(c)}
good_personal_of(rs) ==
    {c \in rs : c \in plan_courses /\ (c \notin taken_courses \/ grade_low(c))}

todo == plan_courses \ taken_courses

\* the conditions "if recs" and "if todo" that guard the divisions
RecsGuardAlways(rs) == TRUE
RecsGuard(rs) == rs # {}
TodoGuard == todo # {}

plan_score_of(rs) ==
    IF RecsGuard(rs) THEN Quotient(Cardinality(good_plan_of(rs)), Cardinality(rs))
    ELSE Zero
personal_score_of(rs) ==
    IF RecsGuard(rs)
    THEN Quotient(Cardinality(good_personal_of(rs)), Cardinality(rs))
    ELSE Zero
recall_of(rs) ==
    IF TodoGuard THEN Quotient(Cardinality(good_plan_of(rs)), Cardinality(todo))
    ELSE Zero

inv_taken_of(rs) == Cardinality({c \in rs : c \in taken_courses})
inv_offplan_of(rs) ==
    Cardinality(rs) - Cardinality(good_plan_of(rs)) - inv_taken_of(rs)

ScoringRaises(rs) ==
    \/ plan_score_of(rs).raised
    \/ personal_score_of(rs).raised
    \/ recall_of(rs).raised

Row(q, mode, rs, lat) ==
    [q |-> q, mode |-> mode, nrec |-> Cardinality(rs),
     plan_score |-> plan_score_of(rs).value,
     personal_score |-> personal_score_of(rs).value,
     lift |-> personal_score_of(rs).value - plan_score_of(rs).value,
     recall |-> recall_of(rs).value,
     inv_taken |-> inv_taken_of(rs),
     inv_offplan |-> inv_offplan_of(rs),
     lat |-> lat]

-----------------------------------------------------------------------------
(* Inputs                                                                  *)

NL == <<"\n">>
code220  == <<"C", "P", "S", " ", "2", "2", "0">>
code2201 == code220 \o <<"1">>
c_AI == code220 \o <<":", " ", "A", "I">>
c_OS == code2201 \o <<":", " ", "O", "S">>

\* course_list.txt: two courses, a blank line, stray whitespace
CourseListFile == <<c_AI \o NL, NL, <<" ">> \o c_OS \o <<" ">> \o NL>>

\* <major>_plan.txt
YearHeading == <<"Y", "e", "a", "r", " ", "1">>
PlanBoth    == <<c_AI \o NL, c_OS \o NL>>
PlanHeading == <<YearHeading \o NL, NL, c_AI \o NL>>
PlanOS      == <<<<" ">> \o c_OS>>
PlanBlank   == <<NL>>
PlanFiles   == {PlanBoth, PlanHeading, PlanOS, PlanBlank}

\* what the data store may hold as a grade: a grade of the scale, None, the
\* empty string, a mark that is not on the scale
GradeValues == {GradeScale[i] : i \in 1..Len(GradeScale)} \cup {None, "", "W"}
NoCourses == [c \in {} |-> None]
GradeBooks ==
    {NoCourses}
    \cup {(c_AI :> g) : g \in GradeValues}
    \cup {(c_AI :> "C") @@ (c_OS :> "B-"), (c_AI :> "A") @@ (c_OS :> "F"),
          (c_OS :> "D"), (c_AI :> "B") @@ (c_OS :> "")}
FewGradeBooks == {NoCourses, (c_AI :> "C")}

\* evaluation_questions.txt with n questions, a blank line after each
MaxQuestions == 2
QuestionLine(i) == <<" ", "Q">> \o <<CHOOSE d \in Digits : d = ToString(i)>> \o NL
QuestionFileOf(n) ==
    [k \in 1..(2 * n) |-> IF k % 2 = 1 THEN QuestionLine((k + 1) \div 2) ELSE NL]

\* texts the generation service may answer
ReplyNone  == <<"n", "o", "n", "e">>
ReplyAI    == <<" ", "c", "p", "s", " ", "2", "2", "0", "\n">>
ReplyOS    == <<"C", "P", "S", " ", "2", "2", "0", "1", ".">>
ReplyBoth  == code220 \o <<",", " ">> \o code2201
ReplyFuzzy == <<"C", "P", "S", "2", "2", "0", ":", " ", "A", "I">>
Replies    == {ReplyNone, ReplyAI, ReplyOS, ReplyBoth, ReplyFuzzy}
FewReplies == {ReplyNone, ReplyBoth}

\* time.time() - st, in hundredths of a second, as "{lat:.2f}s" prints it
Latencies == {250}

-----------------------------------------------------------------------------
(* The script                                                              *)

\* [ln.strip() for ln in open(...) if ln.strip()]
NonBlankLines(lines) ==
    SelectSeq([i \in 1..Len(lines) |-> strip(lines[i])], LAMBDA s : s # <<>>)

\* {ln.strip() for ln in open(plan_file) if ln.strip()}
PlanLines(lines) == {strip(lines[i]) : i \in 1..Len(lines)} \ {<<>>}

MissingFile == [exists |-> FALSE, lines |-> <<>>]

InitRun(planFiles, gradeBooks, questionFiles, replies) ==
    /\ pc = "load"
    /\ student \in {None, "cps"}
    /\ plan_file \in {MissingFile}
                     \cup {[exists |-> TRUE, lines |-> f] : f \in planFiles}
    /\ course_list = CourseListFile
    /\ question_file \in questionFiles
    /\ store_grades \in gradeBooks
    /\ plan_courses = {}
    /\ all_courses = <<>>
    /\ course_grades = NoCourses
    /\ questions = <<>>
    /\ qi = 1 /\ mi = 1
    /\ gen = "none"
    /\ reply = <<>> /\ recs = {}
    /\ rows = <<>>
    /\ csv = [written |-> FALSE, header |-> <<>>, rows |-> <<>>]
    /\ grouped = <<>>
    /\ backend = replies
    /\ a = <<>> /\ boots = <<>> /\ ci_out = <<>>

\* student not found in the account list
LoadNoStudent ==
    /\ pc = "load"
    /\ student = None
    /\ pc' = "ValueError"
    /\ UNCHANGED <<loaded, data, qi, mi, gen, reply, recs, rows, csv, grouped,
                   civars>>

\* the plan file of the student's major is missing
LoadNoPlan ==
    /\ pc = "load"
    /\ student # None
    /\ ~plan_file.exists
    /\ pc' = "FileNotFoundError"
    /\ UNCHANGED <<loaded, data, qi, mi, gen, reply, recs, rows, csv, grouped,
                   civars>>

LoadData ==
    /\ pc = "load"
    /\ student # None
    /\ plan_file.exists
    /\ plan_courses' = PlanLines(plan_file.lines)
    /\ all_courses' = NonBlankLines(course_list)
    /\ course_grades' = store_grades
    /\ questions' = NonBlankLines(question_file)
    /\ pc' = "loop"
    /\ UNCHANGED <<loaded, qi, mi, gen, reply, recs, rows, csv, grouped, civars>>

\* rows.append(...)
PrependRow(table, row) == <<row>> \o table
AppendRow(table, row) == Append(table, row)

\* one pass of the loop body once ask_ai has returned txt
Trial(txt, outcome, lat) ==
    /\ gen' = outcome
    /\ reply' = txt
    /\ recs' = extract_courses(txt)
    /\ IF ScoringRaises(recs')
       THEN /\ pc' = "ZeroDivisionError"
            /\ UNCHANGED <<rows, qi, mi>>
       ELSE /\ rows' = AppendRow(rows, Row(questions[qi], Modes[mi], recs', lat))
            /\ IF mi < Len(Modes)
               THEN mi' = mi + 1 /\ qi' = qi
               ELSE mi' = 1 /\ qi' = qi + 1
            /\ pc' = pc
    /\ UNCHANGED <<loaded, data, csv, grouped, civars>>

InLoop == pc = "loop" /\ qi <= Len(questions)

\* ask_ai returns the "response" field of the body, stripped
TrialAnswered ==
    /\ InLoop
    /\ \E text \in backend, lat \in Latencies : Trial(strip(text), "ok", lat)

\* the service answers with a body that has no "response" field (an error
\* body): resp.json().get("response", "") is ""
TrialNoResponseField ==
    /\ InLoop
    /\ \E lat \in Latencies : Trial(strip(<<>>), "no_response", lat)

\* requests.post times out or fails, or the body is not JSON: the exception
\* is caught nowhere and ends the script
TrialRaises ==
    /\ InLoop
    /\ gen' = "raised"
    /\ pc' = "RequestException"
    /\ UNCHANGED <<loaded, data, qi, mi, reply, recs, rows, csv, grouped, civars>>

SaveCSV ==
    /\ pc = "loop"
    /\ qi > Len(questions)
    /\ csv' = [written |-> TRUE, header |-> Header, rows |-> rows]
    /\ pc' = "summarize"
    /\ UNCHANGED <<loaded, data, qi, mi, gen, reply, recs, rows, grouped, civars>>

\* grouped.setdefault(m, []).append((ps, pers, rc))
GroupOf(m) ==
    LET mine == SelectSeq(rows, LAMBDA r : r.mode = m)
    IN  [k \in 1..Len(mine) |->
            <<mine[k].plan_score, mine[k].personal_score, mine[k].recall>>]

Summarize ==
    /\ pc = "summarize"
    /\ grouped' = [m \in {rows[k].mode : k \in 1..Len(rows)} |-> GroupOf(m)]
    /\ pc' = "done"
    /\ UNCHANGED <<loaded, data, qi, mi, gen, reply, recs, rows, csv, civars>>

Next ==
    \/ LoadNoStudent
    \/ LoadNoPlan
    \/ LoadData
    \/ TrialAnswered
    \/ TrialRaises
    \/ TrialNoResponseField
    \/ SaveCSV
    \/ Summarize

\* the whole run, over question files of up to MaxQuestions questions
Init == InitRun({PlanBoth, PlanHeading}, FewGradeBooks,
                {QuestionFileOf(n) : n \in 0..MaxQuestions}, FewReplies)
Spec == Init /\ [][Next]_vars

\* the run over one question, for every plan file, grade book and reply
InitScoring == InitRun(PlanFiles, GradeBooks, {QuestionFileOf(1)}, Replies)
SpecScoring == InitScoring /\ [][Next]_vars

-----------------------------------------------------------------------------
(* extract_courses as a function of the reply text and the catalog         *)

c_OS_only == <<c_OS>>
ExtractCatalogs == {<<c_AI, c_OS>>, <<c_AI>>, c_OS_only}

TextPrefixes == {<<>>, <<"x">>, <<"_">>, <<"(">>, <<"2", " ">>}
TextCores    == {<<>>, code220, lower(code220), code2201,
                 <<"C", "P", "S", "2", "2", "0", ":", " ", "A", "I">>,
                 code220 \o <<":", " ", "O", "S">>,
                 code2201 \o <<":", " ", "A", "I">>}
TextSuffixes == {<<>>, <<"1">>, <<"b">>, <<".">>, <<" ">> \o code2201}
ExtractTexts == {p \o c \o t : p \in TextPrefixes, c \in TextCores,
                               t \in TextSuffixes}

InitExtract ==
    /\ pc = "extract"
    /\ all_courses \in ExtractCatalogs
    /\ reply \in ExtractTexts
    /\ recs = {}
    /\ student = "cps"
    /\ plan_file = MissingFile
    /\ course_list = <<>>
    /\ question_file = <<>>
    /\ store_grades = NoCourses
    /\ plan_courses = {}
    /\ course_grades = NoCourses
    /\ questions = <<>>
    /\ qi = 1 /\ mi = 1
    /\ gen = "ok"
    /\ rows = <<>>
    /\ csv = [written |-> FALSE, header |-> <<>>, rows |-> <<>>]
    /\ grouped = <<>>
    /\ backend = {}
    /\ a = <<>> /\ boots = <<>> /\ ci_out = <<>>

ExtractCourses ==
    /\ pc = "extract"
    /\ recs' = extract_courses(reply)
    /\ pc' = "extracted"
    /\ UNCHANGED <<loaded, data, qi, mi, gen, reply, rows, csv, grouped, civars>>

NextExtract == ExtractCourses
SpecExtract == InitExtract /\ [][NextExtract]_vars

-----------------------------------------------------------------------------
(* ci(a): the bootstrap interval of one list of observations.  A mean of N  *)
(* observations is kept as its sum (the numerator over N), a cut point as   *)
(* its numerator over 20 * N.                                               *)

\* number of resamples drawn here; the script draws 1000
BOOT_ITER == 3
MaxObs == 2
ObsValues == {0, 500, 1000}
ObsLists == UNION {[1..n -> ObsValues] : n \in 1..MaxObs}

RECURSIVE SumSeq(_)
SumSeq(s) == IF s = <<>> THEN 0 ELSE Head(s) + SumSeq(Tail(s))

\* statistics.quantiles(data, n=20), method "exclusive": the 19 cut points
quantiles20(sample) ==
    LET d  == SortSeq(sample, LAMBDA x, y : x < y)
        ld == Len(d)
        m  == ld + 1
        at(i) ==
            LET j0 == (i * m) \div 20
                j  == IF j0 < 1 THEN 1 ELSE IF j0 > ld - 1 THEN ld - 1 ELSE j0
                delta == i * m - j * 20
            IN  d[j] * (20 - delta) + d[j + 1] * delta
    IN  [i \in 1..19 |-> at(i)]

InitCI ==
    /\ pc = "ci"
    /\ a \in ObsLists
    /\ boots = <<>>
    /\ ci_out = <<>>
    /\ all_courses = <<>>
    /\ reply = <<>>
    /\ recs = {}
    /\ student = "cps"
    /\ plan_file = MissingFile
    /\ course_list = <<>>
    /\ question_file = <<>>
    /\ store_grades = NoCourses
    /\ plan_courses = {}
    /\ course_grades = NoCourses
    /\ questions = <<>>
    /\ qi = 1 /\ mi = 1
    /\ gen = "none"
    /\ rows = <<>>
    /\ csv = [written |-> FALSE, header |-> <<>>, rows |-> <<>>]
    /\ grouped = <<>>
    /\ backend = {}

\* statistics.mean(random.choices(a, k=len(a))), once per iteration
Resample ==
    /\ pc = "ci"
    /\ Len(boots) < BOOT_ITER
    /\ \E pick \in [1..Len(a) -> 1..Len(a)] :
          boots' = Append(boots, SumSeq([k \in 1..Len(a) |-> a[pick[k]]]))
    /\ UNCHANGED <<pc, a, ci_out, loaded, data, qi, mi, gen, reply, recs, rows,
                   csv, grouped>>

\* return statistics.quantiles(boots, n=20)[1], statistics.quantiles(boots, n=20)[-2]
ReturnCI ==
    /\ pc = "ci"
    /\ Len(boots) = BOOT_ITER
    /\ ci_out' = <<quantiles20(boots)[2], quantiles20(boots)[18]>>
    /\ pc' = "ci_done"
    /\ UNCHANGED <<a, boots, loaded, data, qi, mi, gen, reply, recs, rows, csv,
                   grouped>>

NextCI == Resample \/ ReturnCI
SpecCI == InitCI /\ [][NextCI]_vars

-----------------------------------------------------------------------------
(* Claims                                                                  *)

Catalog == {all_courses[i] : i \in 1..Len(all_courses)}
RowIndex == 1..Len(rows)
LastRow == rows[Len(rows)]
\* the last trial ran to its row
TrialRecorded == gen \in {"ok", "no_response"} /\ pc \in {"loop", "summarize", "done"}

\* C1: in every trial row, and for every recommendation set over the catalog,
\* good_plan is a subset of good_personal, PlanScore <= PersonalScore and the
\* recorded Lift is >= 0.
C1_SubsetLift ==
    /\ \A rs \in SUBSET Catalog : good_plan_of(rs) \subseteq good_personal_of(rs)
    /\ good_plan_of(recs) \subseteq good_personal_of(recs)
    /\ \A k \in RowIndex : /\ rows[k].plan_score <= rows[k].personal_score
                           /\ rows[k].lift >= 0
    /\ TrialRecorded =>
          (LastRow.lift > 0 <=> good_plan_of(recs) # good_personal_of(recs))

\* a row whose PersonalScore exceeds its PlanScore: a taken plan course with a
\* low grade was recommended
C1_Witness ==
    /\ TrialRecorded
    /\ LastRow.lift > 0
    /\ good_plan_of(recs) # good_personal_of(recs)

\* C2: a trial whose generation call times out or fails is marked failed,
\* never recorded as a zero-recommendation success with 0.0 scores, and the
\* run continues with the remaining trials.
C2_FailedTrialIsolated ==
    /\ gen = "raised" => pc \in {"loop", "summarize", "done"}
    /\ (gen = "no_response" /\ rows # <<>>) =>
          ~(/\ LastRow.nrec = 0
            /\ LastRow.plan_score = 0
            /\ LastRow.personal_score = 0
            /\ LastRow.recall = 0)

\* C3: extract_courses uses one strategy per call: when some catalog code
\* matches in the exact pass, the result is exactly the courses whose code
\* matched; a course that only the fuzzy pass finds is returned only when no
\* code matched.
MatchedByCode == {c \in Catalog : re_search_code(CodeOf(c), reply)}
C3_OneStrategy ==
    pc = "extracted" =>
        /\ MatchedByCode # {} => recs = MatchedByCode
        /\ (recs \ MatchedByCode) # {} => MatchedByCode = {}
        /\ MatchedByCode = {} => recs = FuzzyPass(reply, all_courses)

\* a text whose code matches one course and which is fuzzily close to another
C3_Witness ==
    /\ pc = "extracted"
    /\ MatchedByCode # {}
    /\ (FuzzyPass(reply, all_courses) \ MatchedByCode) # {}
    /\ recs = MatchedByCode

\* C4: in the exact pass a catalog code matches only as a whole word,
\* case-insensitively: an occurrence with a letter or digit right before or
\* right after it is no match, so "CPS 2201" alone does not make the exact
\* pass return the course with code "CPS 220".
LetterOrDigit(c) == IsUpper(c) \/ IsLower(c) \/ c \in Digits
OccursAt(code, text, p) ==
    /\ p + Len(code) <= Len(text)
    /\ \A k \in 1..Len(code) : LowerChar(text[p + k]) = LowerChar(code[k])
WholeWordAt(code, text, p) ==
    /\ OccursAt(code, text, p)
    /\ p = 0 \/ ~LetterOrDigit(text[p])
    /\ p + Len(code) = Len(text) \/ ~LetterOrDigit(text[p + Len(code) + 1])
OccursWholeWord(code, text) == \E p \in 0..Len(text) : WholeWordAt(code, text, p)
C4_WholeWordOnly ==
    pc = "extracted" =>
        /\ \A c \in ExactPass(reply, all_courses) :
              OccursWholeWord(CodeOf(c), reply)
        /\ \A c \in Catalog :
              (ExactPass(reply, all_courses) # {}
               /\ ~OccursWholeWord(CodeOf(c), reply)) => c \notin recs

\* the text holds "CPS 2201", "CPS 220" occurs only inside it, the exact pass
\* decided the result and the course with code "CPS 220" is not in it
C4_Witness ==
    /\ pc = "extracted"
    /\ c_AI \in Catalog
    /\ \E p \in 0..Len(reply) : OccursAt(code2201, reply, p)
    /\ ~OccursWholeWord(code220, reply)
    /\ ExactPass(reply, all_courses) # {}
    /\ c_AI \notin recs

\* C5: scoring never divides by zero: with no recommendation PlanScore,
\* PersonalScore, Lift and Recall are 0.0, with plan minus taken empty Recall
\* is 0.0, and the row is produced as usual.
C5_NoDivisionByZero ==
    /\ pc # "ZeroDivisionError"
    /\ \A k \in RowIndex :
          /\ rows[k].nrec = 0 =>
                /\ rows[k].plan_score = 0 /\ rows[k].personal_score = 0
                /\ rows[k].lift = 0 /\ rows[k].recall = 0
          /\ todo = {} => rows[k].recall = 0
    /\ (gen \in {"ok", "no_response"}) =>
          /\ rows # <<>>
          /\ LastRow.nrec = Cardinality(recs)

\* the whole plan is taken, one row has no recommendation and one has some
C5_Witness ==
    /\ TrialRecorded
    /\ plan_courses # {}
    /\ plan_courses = taken_courses
    /\ \E k \in RowIndex : rows[k].nrec = 0
    /\ \E k \in RowIndex : rows[k].nrec > 0

\* C6: grade_low(c) holds exactly when c has a recorded grade of the scale
\* that is equal to or worse than LOW_GRADE_THRESHOLD; no grade, an empty
\* grade or a grade off the scale is not low and never puts a course into
\* good_personal.
LowOnScale(c) ==
    /\ c \in DOMAIN course_grades
    /\ OnScale(course_grades[c])
    /\ grade_rank(course_grades[c]) >= grade_rank(LOW_GRADE_THRESHOLD)
C6_LowOnlyOnScale ==
    /\ \A c \in Catalog \cup taken_courses : grade_low(c) <=> LowOnScale(c)
    /\ \A c \in good_personal_of(recs) : c \in taken_courses => LowOnScale(c)

\* C7: ci returns the first and the last of the 19 cut points that split the
\* sorted resampled means into 20 parts: the 5th and the 95th percentile.
C7_FifthAndNinetyFifth ==
    pc = "ci_done" =>
        ci_out = <<quantiles20(boots)[1], quantiles20(boots)[19]>>

\* C8: the row table only grows by appending; its rows are, question by
\* question in file order, the modes full, noGrades, noPlan, question; when
\* the loop has ended there is one row per (question, mode) pair and the CSV
\* holds them.
RowsInOrder ==
    \A k \in RowIndex :
        /\ ((k - 1) \div 4) + 1 <= Len(questions)
        /\ rows[k].q = questions[((k - 1) \div 4) + 1]
        /\ rows[k].mode = Modes[((k - 1) % 4) + 1]
RowsComplete ==
    pc \in {"summarize", "done"} =>
        /\ Len(rows) = 4 * Len(questions)
        /\ csv.rows = rows
C8_AppendOnlyInOrder ==
    [][/\ \/ rows' = rows
          \/ /\ Len(rows') = Len(rows) + 1
             /\ SubSeq(rows', 1, Len(rows)) = rows
       /\ RowsInOrder'
       /\ RowsComplete']_vars

\* a finished run over two questions in which the last call succeeded
C8_Witness ==
    /\ pc = "done"
    /\ Len(questions) = 2
    /\ Len(rows) = 8
    /\ gen = "ok"
    /\ rows[4].q # rows[5].q

\* C9: a line is a plan course only if it holds ':' and the text before the
\* ':' is 2-4 uppercase letters followed by a 3-4 digit number; every other
\* line is skipped and counts neither in the plan nor in plan minus taken.
SubjectCode(t) ==
    \E nl \in 2..4, nd \in 3..4 :
        /\ Len(t) >= nl + nd
        /\ \A i \in 1..nl : IsUpper(t[i])
        /\ \A i \in (nl + 1)..(Len(t) - nd) : t[i] \in Whitespace
        /\ \A i \in (Len(t) - nd + 1)..Len(t) : t[i] \in Digits
AcceptedPlanLine(s) ==
    /\ \E k \in 1..Len(s) : s[k] = ":"
    /\ SubjectCode(strip(SplitColonHead(s)))
C9_PlanLinesFiltered ==
    /\ \A c \in plan_courses : AcceptedPlanLine(c)
    /\ \A c \in todo : AcceptedPlanLine(c)

\* C10: in every row invalid_off_plan is non-negative; good_plan and the taken
\* recommendations are disjoint parts of recs, and the count is the number of
\* recommended courses that are neither taken nor untaken plan courses.
C10_OffPlanNonNegative ==
    /\ \A k \in RowIndex : rows[k].inv_offplan >= 0
    /\ good_plan_of(recs) \cap {c \in recs : c \in taken_courses} = {}
    /\ TrialRecorded =>
          LastRow.inv_offplan =
              Cardinality({c \in recs : c \notin taken_courses
                                        /\ c \notin plan_courses})

\* a row with a taken recommendation and an off-plan one
C10_Witness ==
    /\ TrialRecorded
    /\ LastRow.inv_taken > 0
    /\ LastRow.inv_offplan > 0

====
